---- MODULE Spec2Model ----
(***************************************************************************)
(* Model of the Facebook following scraper:                                *)
(*   src/src/extractors/facebook_parser.py  (FacebookFollowingScraper)     *)
(*   src/src/extractors/utils_time.py       (parse_relative_time)          *)
(*   src/src/outputs/exporters.py           (export_data)                  *)
(*   src/src/runner.py                      (main)                         *)
(*                                                                         *)
(* Python strings on which the code computes (hrefs, URLs, visible text,   *)
(* timestamps, paths) are sequences of one-character strings, so that      *)
(* startswith, lstrip, lower, substring tests and regular expressions are  *)
(* computed the way the code computes them.  An Optional value is <<>>     *)
(* (None) or <<v>>.                                                        *)
(***************************************************************************)
EXTENDS Integers, Sequences, FiniteSets, TLC

VARIABLES
    pc,            \* position of the running entry point
    \* --- FacebookFollowingScraper.scrape -------------------------------
    urls,          \* the urls argument (sequence of strings)
    max_items,     \* the max_items argument, Optional int
    down,          \* environment: resolved URLs whose fetch/parse raises
    idx,           \* index of the next url of the for loop
    remaining,     \* scrape's local `remaining`, Optional int
    all_profiles,  \* scrape's local `all_profiles`
    fetched,       \* log of session.get calls: <<[url, limit]>>
    raised,        \* an exception escaped the entry point
    \* --- _scrape_profile called on its own -----------------------------
    html,          \* the page: sequence of <a> elements in document order
    limit,         \* the limit argument, Optional int
    profiles,      \* the returned list
    \* --- parse_relative_time --------------------------------------------
    text,          \* the text argument
    now,           \* the reference instant
    parsed,        \* the outcome of the call
    \* --- export_data and the filesystem ----------------------------------
    records,       \* the records argument
    output_path,   \* the output_path argument: the destination's file name
    output_format, \* the output_format argument, Optional string
    parent_dir_exists, \* the destination's parent directory exists
    dest_file,     \* the destination's content (sequence of lines), Optional
    failing_disk,  \* environment: creating or opening the file raises OSError
    export_result, \* how export_data ended, Optional: "ok" or the exception
    \* --- main -------------------------------------------------------------
    args,          \* the parsed command line (argparse namespace), Optional
    file_config,   \* what the settings file sets, Optional
    config,        \* the effective configuration (after lines 143-148)
    input_file,    \* content of the input file (its lines), Optional
    exit_code      \* process exit status, Optional int

vars == << pc, urls, max_items, down, idx, remaining, all_profiles, fetched,
           raised, html, limit, profiles, text, now, parsed, records,
           output_path, output_format, parent_dir_exists, dest_file,
           failing_disk, export_result, args, file_config, config,
           input_file, exit_code >>

(***************************************************************************)
(* Optional values and Python string primitives                            *)
(***************************************************************************)
None == << >>
Some(v) == << v >>
IsNone(o) == o = << >>
Get(o) == o[1]

Min(a, b) == IF a <= b THEN a ELSE b

Range(q) == { q[i] : i \in DOMAIN q }

StartsWith(s, p) == Len(s) >= Len(p) /\ SubSeq(s, 1, Len(p)) = p

\* `p in s`
Contains(s, p) ==
    \E i \in 1..(Len(s) - Len(p) + 1) : SubSeq(s, i, i + Len(p) - 1) = p

\* index of the first occurrence of character c in s, or Len(s)+1
IndexOf(s, c) ==
    IF \E i \in 1..Len(s) : s[i] = c
    THEN CHOOSE i \in 1..Len(s) : s[i] = c /\ \A j \in 1..(i - 1) : s[j] # c
    ELSE Len(s) + 1

RECURSIVE LStripChars(_, _)
LStripChars(s, cs) ==
    IF s # << >> /\ Head(s) \in cs THEN LStripChars(Tail(s), cs) ELSE s

RECURSIVE RStripChars(_, _)
RStripChars(s, cs) ==
    IF s # << >> /\ s[Len(s)] \in cs
    THEN RStripChars(SubSeq(s, 1, Len(s) - 1), cs) ELSE s

Whitespace == {" ", "\t", "\n", "\r", "\f"}

\* str.strip()
Strip(s) == RStripChars(LStripChars(s, Whitespace), Whitespace)

UpperAlpha ==
    << "A", "B", "C", "D", "E", "F", "G", "H", "I", "J", "K", "L", "M",
       "N", "O", "P", "Q", "R", "S", "T", "U", "V", "W", "X", "Y", "Z" >>
LowerAlpha ==
    << "a", "b", "c", "d", "e", "f", "g", "h", "i", "j", "k", "l", "m",
       "n", "o", "p", "q", "r", "s", "t", "u", "v", "w", "x", "y", "z" >>

LowerChar(c) ==
    IF \E i \in 1..26 : UpperAlpha[i] = c
    THEN LowerAlpha[CHOOSE i \in 1..26 : UpperAlpha[i] = c]
    ELSE c

\* str.lower()
Lower(s) == [i \in 1..Len(s) |-> LowerChar(s[i])]

Digits == {"0", "1", "2", "3", "4", "5", "6", "7", "8", "9"}

DigitVal(c) ==
    CASE c = "0" -> 0 [] c = "1" -> 1 [] c = "2" -> 2 [] c = "3" -> 3
      [] c = "4" -> 4 [] c = "5" -> 5 [] c = "6" -> 6 [] c = "7" -> 7
      [] c = "8" -> 8 [] c = "9" -> 9

\* int() of a digit string
RECURSIVE IntOf(_)
IntOf(s) ==
    IF s = << >> THEN 0
    ELSE IntOf(SubSeq(s, 1, Len(s) - 1)) * 10 + DigitVal(s[Len(s)])

\* the maximal run of digits of s starting at position i (regex \d+, greedy)
RECURSIVE DigitRun(_, _)
DigitRun(s, i) ==
    IF i <= Len(s) /\ s[i] \in Digits THEN << s[i] >> \o DigitRun(s, i + 1)
    ELSE << >>

RECURSIVE Concat(_)
Concat(ss) == IF ss = << >> THEN << >> ELSE Head(ss) \o Concat(Tail(ss))

(***************************************************************************)
(* String literals of the code                                              *)
(***************************************************************************)
S_http == << "h", "t", "t", "p", ":", "/", "/" >>
S_https == << "h", "t", "t", "p", "s", ":", "/", "/" >>
S_https_colon == << "h", "t", "t", "p", "s", ":" >>
S_slashes == << "/", "/" >>
S_facebook_com == << "f", "a", "c", "e", "b", "o", "o", "k", ".", "c", "o", "m" >>
S_www == << "w", "w", "w", "." >>
S_friends == << "f", "r", "i", "e", "n", "d", "s" >>
S_following == << "f", "o", "l", "l", "o", "w", "i", "n", "g" >>
S_profile_php == << "p", "r", "o", "f", "i", "l", "e", ".", "p", "h", "p" >>

\* FacebookFollowingScraper.base_url (the constructor's default, rstrip("/"))
base_url == S_https \o S_www \o S_facebook_com

FOLLOWING_URL_PATTERNS ==
    { << "/" >> \o S_friends,
      << "/" >> \o S_friends \o << "_", "m", "u", "t", "u", "a", "l" >>,
      << "/" >> \o S_following,
      << "/" >> \o S_profile_php,
      S_facebook_com }

\* the navigation/utility terms of _find_candidate_cards
SKIP_TERMS ==
    { << "h", "o", "m", "e" >>,
      << "c", "r", "e", "a", "t", "e" >>,
      << "m", "a", "r", "k", "e", "t", "p", "l", "a", "c", "e" >>,
      << "g", "r", "o", "u", "p", "s" >>,
      S_friends,
      << "w", "a", "t", "c", "h" >>,
      << "m", "e", "n", "u" >>,
      << "l", "o", "g", " ", "i", "n" >>,
      << "l", "o", "g", " ", "o", "u", "t" >>,
      << "p", "r", "i", "v", "a", "c", "y" >>,
      << "t", "e", "r", "m", "s" >> }

(***************************************************************************)
(* FacebookFollowingScraper                                                 *)
(***************************************************************************)
\* truthiness of an Optional string: None and "" are falsy
Falsy(o) == IsNone(o) \/ Get(o) = << >>

\* Python's `a or b` on Optional strings
PyOr(a, b) == IF ~Falsy(a) THEN a ELSE b

\* _normalize_profile_url.  urljoin(base_url + "/", rel) is base_url + "/" + rel
\* for the relative references of the model, which carry no scheme and no
\* "." or ".." segment.
normalize_profile_url(url) ==
    IF StartsWith(url, S_http) \/ StartsWith(url, S_https) THEN url
    ELSE IF StartsWith(url, S_slashes) THEN S_https_colon \o url
    ELSE base_url \o << "/" >> \o LStripChars(url, {"/"})

\* Tag.get_text(strip=True): every text node stripped, empty ones dropped,
\* the rest joined with ""
get_text(a) == Concat([i \in 1..Len(a.text) |-> Strip(a.text[i])])

\* variant of TextIsSkipped: the blocklist test without lower-casing the text
TextIsSkippedCaseSensitive(t) == \E skip \in SKIP_TERMS : Contains(t, skip)

\* _find_candidate_cards, the navigation/utility test on the visible text
TextIsSkipped(t) == \E skip \in SKIP_TERMS : Contains(Lower(t), skip)

\* soup.find_all("a", href=True)
HasHref(a) == ~IsNone(a.href)

\* _find_candidate_cards, the tests of the loop body applied to one anchor
IsCandidate(a) ==
    /\ \E pattern \in FOLLOWING_URL_PATTERNS : Contains(Get(a.href), pattern)
    /\ get_text(a) # << >>
    /\ ~TextIsSkipped(get_text(a))

\* _find_candidate_cards: the candidates, in document order
find_candidate_cards(soup) == SelectSeq(SelectSeq(soup, HasHref), IsCandidate)

\* urlparse(full_url) for http(s) URLs: what follows the netloc, without
\* the fragment
UrlAfterNetloc(u) ==
    LET rest == IF StartsWith(u, S_https)
                THEN SubSeq(u, Len(S_https) + 1, Len(u))
                ELSE SubSeq(u, Len(S_http) + 1, Len(u))
        cut  == Min(IndexOf(rest, "/"), Min(IndexOf(rest, "?"), IndexOf(rest, "#")))
        tail == SubSeq(rest, cut, Len(rest))
    IN  SubSeq(tail, 1, IndexOf(tail, "#") - 1)

\* urlparse(full_url).path
UrlPath(u) ==
    LET t == UrlAfterNetloc(u) IN SubSeq(t, 1, IndexOf(t, "?") - 1)

\* urlparse(full_url).query
UrlQuery(u) ==
    LET t == UrlAfterNetloc(u) IN SubSeq(t, IndexOf(t, "?") + 1, Len(t))

\* position where the last "/"-separated piece of a path begins
LastSegment_Start(path) ==
    IF \E i \in 1..Len(path) : path[i] = "/"
    THEN 1 + CHOOSE i \in 1..Len(path) :
                 path[i] = "/" /\ \A j \in (i + 1)..Len(path) : path[j] # "/"
    ELSE 1

\* [seg for seg in path.split("/") if seg][-1], or "" when there is none
RECURSIVE LastSegment(_)
LastSegment(path) ==
    IF path = << >> THEN << >>
    ELSE IF path[Len(path)] = "/" THEN LastSegment(SubSeq(path, 1, Len(path) - 1))
    ELSE LET before == LastSegment_Start(path) IN SubSeq(path, before, Len(path))

\* re.search(r"id=(\d+)", query): group 1 of the leftmost match, Optional
SearchId(query) ==
    LET hits == { i \in 1..Len(query) :
                    /\ i + 3 <= Len(query)
                    /\ SubSeq(query, i, i + 2) = << "i", "d", "=" >>
                    /\ query[i + 3] \in Digits }
    IN  IF hits = {} THEN None
        ELSE LET i == CHOOSE h \in hits : \A k \in hits : h <= k
             IN  Some(DigitRun(query, i + 3))

\* the derivation with the last path segment tried for every URL before the
\* full URL is used
ProfileIdentitySegmentFirst(full_url) ==
    LET path == UrlPath(full_url)
        m    == SearchId(UrlQuery(full_url))
        seg  == LastSegment(path)
        php  == Contains(path, S_profile_php)
        profile_id == IF php /\ ~IsNone(m) THEN Get(m) ELSE seg
    IN  [ id       |-> IF profile_id = << >> THEN full_url ELSE profile_id,
          username |-> IF php \/ seg = << >> THEN None ELSE Some(seg) ]

\* _build_profile_from_anchor, the id and username derivation (lines 195-217)
ProfileIdentity(full_url) ==
    LET path == UrlPath(full_url)
        m    == SearchId(UrlQuery(full_url))
        seg  == LastSegment(path)
        username   == IF Contains(path, S_profile_php) \/ seg = << >>
                      THEN None ELSE Some(seg)
        profile_id == IF Contains(path, S_profile_php)
                      THEN (IF IsNone(m) THEN << >> ELSE Get(m))
                      ELSE seg
    IN  [ id       |-> IF profile_id = << >> THEN full_url ELSE profile_id,
          username |-> username ]

\* _build_profile_from_anchor
build_profile_from_anchor(a, full_url) ==
    LET ident   == ProfileIdentity(full_url)
        details == { kv \in { << "data_gt", a.data_gt >>,
                              << "data_hovercard", a.data_hovercard >> } :
                       ~Falsy(kv[2]) }
    IN  [ id              |-> ident.id,
          image           |-> IF IsNone(a.img) THEN None
                              ELSE PyOr(Get(a.img).src, Get(a.img).data_src),
          title           |-> get_text(a),
          subtitle_text   |-> PyOr(PyOr(a.aria_label, a.title), None),
          url             |-> full_url,
          username        |-> ident.username,
          profile_details |-> IF details = {} THEN None ELSE Some(details) ]

\* variant of CapReached: the comparison is strict
CapReachedStrict(n, lim) == ~IsNone(lim) /\ n > Get(lim)

\* _scrape_profile line 130: `limit is not None and len(profiles) >= limit`
CapReached(n, lim) == ~IsNone(lim) /\ n >= Get(lim)

\* variant of AlreadySeen: nothing is ever taken as seen
AlreadySeenNever(full_url, seen_urls) == FALSE

\* _scrape_profile line 123: `full_url in seen_urls`
AlreadySeen(full_url, seen_urls) == full_url \in seen_urls

\* variant of ScrapeCards: the cap counts the anchors examined, dropped
\* duplicates included, instead of the records kept
RECURSIVE ScrapeCardsCountingDuplicates(_, _, _, _, _)
ScrapeCardsCountingDuplicates(cards, i, seen_urls, profs, lim) ==
    IF i > Len(cards) THEN profs
    ELSE LET a == cards[i]
             full_url == normalize_profile_url(Get(a.href))
             profs2 == IF full_url \in seen_urls THEN profs
                       ELSE Append(profs, build_profile_from_anchor(a, full_url))
         IN  IF ~IsNone(lim) /\ i >= Get(lim) THEN profs2
             ELSE ScrapeCardsCountingDuplicates(cards, i + 1,
                      seen_urls \cup {full_url}, profs2, lim)

\* _scrape_profile, the loop over the candidate anchors from card i on
RECURSIVE ScrapeCards(_, _, _, _, _)
ScrapeCards(cards, i, seen_urls, profs, lim) ==
    IF i > Len(cards) THEN profs
    ELSE LET a == cards[i] IN
         IF Falsy(a.href) THEN ScrapeCards(cards, i + 1, seen_urls, profs, lim)
         ELSE LET full_url == normalize_profile_url(Get(a.href)) IN
              IF AlreadySeen(full_url, seen_urls)
              THEN ScrapeCards(cards, i + 1, seen_urls, profs, lim)
              ELSE LET profs2 == Append(profs, build_profile_from_anchor(a, full_url))
                   IN  IF CapReached(Len(profs2), lim) THEN profs2
                       ELSE ScrapeCards(cards, i + 1, seen_urls \cup {full_url},
                                        profs2, lim)

\* _scrape_profile from the parsed response on (lines 109-133)
ParseProfilePage(soup, lim) ==
    ScrapeCards(find_candidate_cards(soup), 1, {}, << >>, lim)

(***************************************************************************)
(* Pages: the <a> elements the model draws documents from                   *)
(***************************************************************************)
MaxAnchors == 3   \* longest document, in <a> elements
MaxLimit == 3     \* largest cap given to a scrape
MaxUrls == 3      \* longest list of input URLs

Anchor(href, txt, aria, ttl, img, gt) ==
    [ href |-> href, text |-> txt, aria_label |-> aria, title |-> ttl,
      img |-> img, data_gt |-> gt, data_hovercard |-> None ]

S_al_following == << "a", "l", "/" >> \o S_following

\* <a href="/al/following"><img src="p"/> Al </a>
A_rel == Anchor(Some(<< "/" >> \o S_al_following), << << " ", "A", "l", " " >> >>, None, None,
                Some([src |-> Some(<< "p" >>), data_src |-> None]), None)
\* <a href="https://www.facebook.com/al/following" aria-label="x">Al<b>ly</b></a>
A_abs == Anchor(Some(base_url \o << "/" >> \o S_al_following),
                << << "A", "l" >>, << "l", "y" >> >>, Some(<< "x" >>), None, None, None)
\* <a href="//www.facebook.com/77" title="t" data-gt="g">Bo</a>
A_proto == Anchor(Some(S_slashes \o S_www \o S_facebook_com \o << "/", "7", "7" >>),
                  << << "B", "o" >> >>, Some(<< >>), Some(<< "t" >>), None, Some(<< "g" >>))
\* <a href="/profile.php?id=42"><img data-src="q"/>Cy</a>
A_php == Anchor(Some(<< "/" >> \o S_profile_php \o << "?", "i", "d", "=", "4", "2" >>),
                << << "C", "y" >> >>, None, None,
                Some([src |-> None, data_src |-> Some(<< "q" >>)]), None)
\* <a href="https://www.facebook.com/login">Log In</a>
A_login == Anchor(Some(base_url \o << "/", "l", "o", "g", "i", "n" >>),
                  << << "L", "o", "g", " ", "I", "n" >> >>, None, None, None, None)
\* <a href="/al/following">Homer</a>: same target as A_rel, text holds "home"
A_homer == Anchor(Some(<< "/" >> \o S_al_following), << << "H", "o", "m", "e", "r" >> >>,
                  None, None, None, None)
\* <a href="/about">Di</a>: the href matches no following pattern
A_about == Anchor(Some(<< "/", "a", "b", "o", "u", "t" >>), << << "D", "i" >> >>,
                  None, None, None, None)
\* <a href="https://www.facebook.com/77"> <img src="p"/></a>: no visible text
A_blank == Anchor(Some(base_url \o << "/", "7", "7" >>), << << " " >>, << >> >>,
                  None, None, Some([src |-> Some(<< "p" >>), data_src |-> None]), None)
\* <a name="top">Ed</a>: no href attribute
A_nohref == Anchor(None, << << "E", "d" >> >>, None, None, None, None)

Anchors == { A_rel, A_abs, A_proto, A_php, A_login, A_homer, A_about,
             A_blank, A_nohref }

SeqsUpTo(S, n) == UNION { [1..k -> S] : k \in 0..n }

Documents == SeqsUpTo(Anchors, MaxAnchors)

(***************************************************************************)
(* Values the variables of an entry point hold while another one runs       *)
(***************************************************************************)
ScrapeIdle ==
    /\ urls = << >> /\ max_items = None /\ down = {} /\ idx = 1
    /\ remaining = None /\ all_profiles = << >> /\ fetched = << >>
    /\ raised = FALSE
ProfileIdle == html = << >> /\ limit = None /\ profiles = << >>
TimeIdle == text = << >> /\ now = None /\ parsed = None
ExportIdle ==
    /\ records = << >> /\ output_path = << >> /\ output_format = None
    /\ parent_dir_exists = TRUE /\ dest_file = None /\ failing_disk = FALSE
    /\ export_result = None
MainIdle ==
    /\ args = None /\ file_config = None
    /\ config = None /\ input_file = None /\ exit_code = None

scrapeVars == << urls, max_items, down, idx, remaining, all_profiles, fetched, raised >>
profileVars == << html, limit, profiles >>
timeVars == << text, now, parsed >>
exportVars == << records, output_path, output_format, parent_dir_exists,
                dest_file, failing_disk, export_result >>
mainVars == << args, file_config, config, input_file, exit_code >>

(***************************************************************************)
(* _scrape_profile on every document and limit                              *)
(***************************************************************************)
Limits == {None} \cup { Some(n) : n \in 0..MaxLimit }

InitProfile ==
    /\ pc = "scrape_profile"
    /\ html \in Documents
    /\ limit \in Limits
    /\ profiles = << >>
    /\ ScrapeIdle /\ TimeIdle /\ ExportIdle /\ MainIdle

\* one call of _scrape_profile, from the parsed response to the return
ScrapeProfileCall ==
    /\ pc = "scrape_profile"
    /\ profiles' = ParseProfilePage(html, limit)
    /\ pc' = "profile_returned"
    /\ UNCHANGED << html, limit, scrapeVars, timeVars, exportVars, mainVars >>

NextProfile == ScrapeProfileCall

SpecProfile == InitProfile /\ [][NextProfile]_vars

(***************************************************************************)
(* _scrape_profile on pages of one link, over the shapes a profile URL can  *)
(* take: relative, protocol-relative or absolute; with or without path      *)
(* segments, a trailing slash or profile.php; with or without a query or a  *)
(* fragment that holds id=<digits>.                                         *)
(***************************************************************************)
HrefPrefixes ==
    { << "/" >>,
      S_slashes \o S_www \o S_facebook_com \o << "/" >>,
      base_url \o << "/" >>,
      S_http \o S_www \o S_facebook_com \o << "/" >> }

HrefPaths ==
    { << >>,
      << "a", "l" >>,
      << "7", "7" >>,
      << "a", "l", "/" >>,
      << "p", "a", "g", "e", "s", "/", "x", "/", "9" >>,
      S_al_following,
      S_profile_php,
      << "x", "/" >> \o S_profile_php \o << "/", "y" >> }

HrefQueries ==
    { << >>,
      << "?", "i", "d", "=", "4", "2" >>,
      << "?", "r", "e", "f", "=", "1" >>,
      << "?", "x", "=", "1", "&", "i", "d", "=", "7" >>,
      << "?", "i", "d", "=" >>,
      << "?", "u", "i", "d", "=", "3", "a" >>,
      << "#", "i", "d", "=", "5" >> }

IdentityHrefs ==
    { p \o h \o q : p \in HrefPrefixes, h \in HrefPaths, q \in HrefQueries }

\* <a href=h>Al</a>
IdentityDocuments ==
    { << Anchor(Some(h), << << "A", "l" >> >>, None, None, None, None) >> :
        h \in IdentityHrefs }

InitIdentity ==
    /\ pc = "scrape_profile"
    /\ html \in IdentityDocuments
    /\ limit = None
    /\ profiles = << >>
    /\ ScrapeIdle /\ TimeIdle /\ ExportIdle /\ MainIdle

SpecIdentity == InitIdentity /\ [][NextProfile]_vars

(***************************************************************************)
(* FacebookFollowingScraper.scrape over a small web                         *)
(***************************************************************************)
\* input URLs as they stand in the urls argument
U_al == << "a", "l" >>
U_al_slash == << "/", "a", "l" >>
U_bo == base_url \o << "/", "b", "o" >>
U_cy == S_slashes \o S_www \o S_facebook_com \o << "/", "c", "y" >>

InputUrls == { U_al, U_al_slash, U_bo, U_cy }

Sites == { normalize_profile_url(u) : u \in InputUrls }

\* response.text of the page at a resolved URL, parsed: its <a> elements
Web(resolved_url) ==
    CASE resolved_url = base_url \o << "/", "a", "l" >> ->
            << A_rel, A_abs, A_proto >>
      [] resolved_url = base_url \o << "/", "b", "o" >> ->
            << A_php, A_login, A_proto, A_blank, A_rel >>
      [] OTHER -> << A_login, A_about >>

MaxItemsValues == {None} \cup { Some(n) : n \in (-1)..MaxLimit }

InitScrape ==
    /\ pc = "scrape_loop"
    /\ urls \in SeqsUpTo(InputUrls, MaxUrls)
    /\ max_items \in MaxItemsValues
    /\ down \in SUBSET Sites
    /\ idx = 1
    /\ remaining = max_items
    /\ all_profiles = << >>
    /\ fetched = << >>
    /\ raised = FALSE
    /\ ProfileIdle /\ TimeIdle /\ ExportIdle /\ MainIdle

\* scrape line 75: `remaining is not None and remaining <= 0`
BudgetExhausted(rem) == ~IsNone(rem) /\ Get(rem) <= 0

\* variant of OnScrapeError: the first failing URL ends the loop
OnScrapeErrorBreak == "break"

\* scrape lines 81-83: what the except clause does with an error of
\* _scrape_profile
OnScrapeError == "continue"

\* the session.get call of _scrape_profile (line 105), as logged by the model;
\* had is the number of records accumulated when the call is made
FetchEntry(u, lim) ==
    [ url |-> normalize_profile_url(u), limit |-> lim, had |-> Len(all_profiles) ]

\* scrape lines 74-83: the fetch or the parse of the next URL raises
ScrapeUrlFails ==
    /\ pc = "scrape_loop"
    /\ idx <= Len(urls)
    /\ ~BudgetExhausted(remaining)
    /\ normalize_profile_url(urls[idx]) \in down
    /\ fetched' = Append(fetched, FetchEntry(urls[idx], remaining))
    /\ idx' = idx + 1
    /\ pc' = IF OnScrapeError = "continue" THEN "scrape_loop" ELSE "scrape_returned"
    /\ raised' = (OnScrapeError = "raise")
    /\ UNCHANGED << urls, max_items, down, remaining, all_profiles >>
    /\ UNCHANGED << profileVars, timeVars, exportVars, mainVars >>

\* scrape lines 74-88: the next URL is scraped and its records accumulated
ScrapeUrlOk ==
    /\ pc = "scrape_loop"
    /\ idx <= Len(urls)
    /\ ~BudgetExhausted(remaining)
    /\ normalize_profile_url(urls[idx]) \notin down
    /\ LET got == ParseProfilePage(Web(normalize_profile_url(urls[idx])), remaining)
       IN  /\ all_profiles' = all_profiles \o got
           /\ remaining' = IF IsNone(remaining) THEN None
                           ELSE Some(Get(remaining) - Len(got))
    /\ fetched' = Append(fetched, FetchEntry(urls[idx], remaining))
    /\ idx' = idx + 1
    /\ UNCHANGED << pc, urls, max_items, down, raised >>
    /\ UNCHANGED << profileVars, timeVars, exportVars, mainVars >>

\* scrape lines 74-76 and 90: the loop ends (list finished, or break) and
\* all_profiles is returned
ScrapeReturn ==
    /\ pc = "scrape_loop"
    /\ idx > Len(urls) \/ BudgetExhausted(remaining)
    /\ pc' = "scrape_returned"
    /\ UNCHANGED << scrapeVars, profileVars, timeVars, exportVars, mainVars >>

NextScrape == ScrapeUrlFails \/ ScrapeUrlOk \/ ScrapeReturn

SpecScrape == InitScrape /\ [][NextScrape]_vars

\* scrape (lines 70-90) as a function of its arguments when no URL fails:
\* the records returned for the urls us with budget rem
RECURSIVE ScrapeAll(_, _)
ScrapeAll(us, rem) ==
    IF us = << >> \/ BudgetExhausted(rem) THEN << >>
    ELSE LET got == ParseProfilePage(Web(normalize_profile_url(Head(us))), rem)
         IN  got \o ScrapeAll(Tail(us), IF IsNone(rem) THEN None
                                        ELSE Some(Get(rem) - Len(got)))

(***************************************************************************)
(* utils_time.parse_relative_time                                           *)
(*                                                                         *)
(* An instant is [day, min, sec]: the day counted from 0001-01-01 (day 0), *)
(* the minute of that day and the seconds within the minute, in UTC.       *)
(***************************************************************************)
MaxTimedeltaDays == 999999999  \* timedelta.max.days

Instant(d, m, sc) == [day |-> d, min |-> m, sec |-> sc]

Returned(v) == [raises |-> "none", value |-> Some(v)]
Raised(e) == [raises |-> e, value |-> None]

\* timedelta(minutes=n) / timedelta(hours=n) / timedelta(days=n), n >= 0:
\* [days, mins], or an OverflowError
Timedelta(unit, n) ==
    LET dd == CASE unit = "minutes" -> n \div 1440
                [] unit = "hours"   -> n \div 24
                [] unit = "days"    -> n
        mm == CASE unit = "minutes" -> n % 1440
                [] unit = "hours"   -> (n % 24) * 60
                [] unit = "days"    -> 0
    IN  IF dd > MaxTimedeltaDays THEN Raised("OverflowError")
        ELSE Returned([days |-> dd, mins |-> mm])

\* datetime - timedelta: the instant, or an OverflowError when the result
\* falls before datetime.min
MinusTimedelta(t, unit, n) ==
    LET td == Timedelta(unit, n) IN
    IF td.raises # "none" THEN td
    ELSE LET delta  == Get(td.value)
             borrow == IF t.min < delta.mins THEN 1 ELSE 0
             d2     == t.day - delta.days - borrow
             m2     == t.min - delta.mins + 1440 * borrow
         IN  IF d2 < 0 THEN Raised("OverflowError")
             ELSE Returned(Instant(d2, m2, t.sec))

\* datetime.replace(hour=h, minute=m, second=0, microsecond=0)
ReplaceTime(t, h, m) ==
    IF h > 23 \/ m > 59 THEN Raised("ValueError")
    ELSE Returned(Instant(t.day, h * 60 + m, 0))

WordChars == Digits \cup Range(LowerAlpha) \cup Range(UpperAlpha) \cup {"_"}

\* regex \s
RegexSpace == {" ", "\t", "\n", "\r", "\f"}

RECURSIVE SkipSpace(_, _)
SkipSpace(s, i) ==
    IF i <= Len(s) /\ s[i] \in RegexSpace THEN SkipSpace(s, i + 1) ELSE i

\* (?P<value>\d+)\s*(u1|u2|...)\b matches s from position i on
UnitMatchesAt(s, i, units) ==
    /\ s[i] \in Digits
    /\ LET q == SkipSpace(s, i + Len(DigitRun(s, i)))
       IN  \E u \in units :
              /\ q + Len(u) - 1 <= Len(s)
              /\ SubSeq(s, q, q + Len(u) - 1) = u
              /\ (q + Len(u) > Len(s) \/ s[q + Len(u)] \notin WordChars)

\* pattern.search(s): int(m.group("value")) of the leftmost match, Optional
SearchUnit(s, units) ==
    LET hits == { i \in 1..Len(s) : UnitMatchesAt(s, i, units) }
    IN  IF hits = {} THEN None
        ELSE LET i == CHOOSE h \in hits : \A k \in hits : h <= k
             IN  Some(IntOf(DigitRun(s, i)))

RELATIVE_MINUTES_PATTERN ==
    { << "m", "i", "n" >>, << "m", "i", "n", "s" >>, << "m", "i", "n", "u", "t", "e" >>, << "m", "i", "n", "u", "t", "e", "s" >> }
RELATIVE_HOURS_PATTERN ==
    { << "h" >>, << "h", "r" >>, << "h", "r", "s" >>, << "h", "o", "u", "r" >>, << "h", "o", "u", "r", "s" >> }
RELATIVE_DAYS_PATTERN ==
    { << "d" >>, << "d", "a", "y" >>, << "d", "a", "y", "s" >> }

\* (\d{1,2}):(\d{2}) matches s from position i on: the length of group 1, or 0
ClockMatchLen(s, i) ==
    LET dig(k) == k <= Len(s) /\ s[k] \in Digits
        col(k) == k <= Len(s) /\ s[k] = ":"
    IN  IF dig(i) /\ dig(i + 1) /\ col(i + 2) /\ dig(i + 3) /\ dig(i + 4) THEN 2
        ELSE IF dig(i) /\ col(i + 1) /\ dig(i + 2) /\ dig(i + 3) THEN 1
        ELSE 0

\* re.search(r"(\d{1,2}):(\d{2})", s): [hour, minute] of the leftmost match
SearchClock(s) ==
    LET hits == { i \in 1..Len(s) : ClockMatchLen(s, i) > 0 }
    IN  IF hits = {} THEN None
        ELSE LET i == CHOOSE h \in hits : \A k \in hits : h <= k
                 n == ClockMatchLen(s, i)
             IN  Some([hour   |-> IntOf(SubSeq(s, i, i + n - 1)),
                       minute |-> IntOf(SubSeq(s, i + n + 1, i + n + 2))])

\* the two-character alternatives of a strptime directive's regex
TwoOk(dir, a, b) ==
    LET in(c, lo, hi) == c \in Digits /\ DigitVal(c) >= lo /\ DigitVal(c) <= hi
    IN  CASE dir = "%m" -> (a = "1" /\ in(b, 0, 2)) \/ (a = "0" /\ in(b, 1, 9))
          [] dir = "%d" -> \/ (a = "3" /\ in(b, 0, 1))
                           \/ (in(a, 1, 2) /\ in(b, 0, 9))
                           \/ (a = "0" /\ in(b, 1, 9))
                           \/ (a = " " /\ in(b, 1, 9))
          [] dir = "%H" -> (a = "2" /\ in(b, 0, 3)) \/ (in(a, 0, 1) /\ in(b, 0, 9))
          [] dir = "%M" -> in(a, 0, 5) /\ in(b, 0, 9)
          [] dir = "%S" -> (a = "6" /\ in(b, 0, 1)) \/ (in(a, 0, 5) /\ in(b, 0, 9))

\* the one-character alternative of a strptime directive's regex
OneOk(dir, a) ==
    /\ a \in Digits
    /\ dir \in {"%m", "%d"} => DigitVal(a) >= 1

\* the regex built by datetime.strptime for the format fmt (a sequence of
\* directives and literal characters, " " standing for \s+) matched against
\* s from position i and token k on; acc holds the fields read so far.
\* Optional record of fields: None when the text does not match.
RECURSIVE StrpMatch(_, _, _, _, _)
StrpMatch(s, i, fmt, k, acc) ==
    IF k > Len(fmt) THEN (IF i = Len(s) + 1 THEN Some(acc) ELSE None)
    ELSE LET tok == fmt[k] IN
         IF tok = " "
         THEN IF i <= Len(s) /\ s[i] \in RegexSpace
              THEN StrpMatch(s, SkipSpace(s, i), fmt, k + 1, acc)
              ELSE None
         ELSE IF tok = "%Y"
         THEN IF i + 3 <= Len(s) /\ \A j \in i..(i + 3) : s[j] \in Digits
              THEN StrpMatch(s, i + 4, fmt, k + 1,
                             [acc EXCEPT ![tok] = IntOf(SubSeq(s, i, i + 3))])
              ELSE None
         ELSE IF tok \in {"%m", "%d", "%H", "%M", "%S"}
         THEN LET two == IF i + 1 <= Len(s) /\ TwoOk(tok, s[i], s[i + 1])
                         THEN StrpMatch(s, i + 2, fmt, k + 1,
                                  [acc EXCEPT ![tok] =
                                      IntOf(LStripChars(SubSeq(s, i, i + 1), {" "}))])
                         ELSE None
              IN  IF ~IsNone(two) THEN two
                  ELSE IF i <= Len(s) /\ OneOk(tok, s[i])
                  THEN StrpMatch(s, i + 1, fmt, k + 1,
                                 [acc EXCEPT ![tok] = DigitVal(s[i])])
                  ELSE None
         ELSE IF i <= Len(s) /\ s[i] = tok
              THEN StrpMatch(s, i + 1, fmt, k + 1, acc)
              ELSE None

IsLeap(y) == (y % 4 = 0 /\ y % 100 # 0) \/ y % 400 = 0

DaysInMonth(y, m) ==
    IF m = 2 THEN (IF IsLeap(y) THEN 29 ELSE 28)
    ELSE IF m \in {4, 6, 9, 11} THEN 30 ELSE 31

RECURSIVE DaysBeforeMonth(_, _)
DaysBeforeMonth(y, m) ==
    IF m = 1 THEN 0 ELSE DaysBeforeMonth(y, m - 1) + DaysInMonth(y, m - 1)

\* days from 0001-01-01 to y-m-d
DayNumber(y, m, d) ==
    (y - 1) * 365 + (y - 1) \div 4 - (y - 1) \div 100 + (y - 1) \div 400
        + DaysBeforeMonth(y, m) + d - 1

\* datetime.strptime(s, fmt) followed by _ensure_utc: the instant, or the
\* ValueError of a text that does not match or names no valid date and time
Strptime(s, fmt) ==
    LET m == StrpMatch(s, 1, fmt, 1,
                 [d \in {"%Y", "%m", "%d", "%H", "%M", "%S"} |->
                     CASE d = "%Y" -> 1900 [] d \in {"%m", "%d"} -> 1 [] OTHER -> 0])
    IN  IF IsNone(m) THEN Raised("ValueError")
        ELSE LET f == Get(m) IN
             IF f["%Y"] < 1 \/ f["%d"] > DaysInMonth(f["%Y"], f["%m"]) \/ f["%S"] > 59
             THEN Raised("ValueError")
             ELSE Returned(Instant(DayNumber(f["%Y"], f["%m"], f["%d"]),
                                   f["%H"] * 60 + f["%M"], f["%S"]))

\* the formats of the fallback loop (line 74), in order
ABSOLUTE_FORMATS ==
    << << "%Y", "-", "%m", "-", "%d", " ", "%H", ":", "%M", ":", "%S" >>,
       << "%Y", "-", "%m", "-", "%d" >>,
       << "%d", ".", "%m", ".", "%Y", " ", "%H", ":", "%M" >> >>

\* lines 74-82: the first format that parses, else now
RECURSIVE ParseAbsolute(_, _, _)
ParseAbsolute(txt, t, k) ==
    IF k > Len(ABSOLUTE_FORMATS) THEN Returned(t)
    ELSE LET r == Strptime(txt, ABSOLUTE_FORMATS[k])
         IN  IF r.raises = "ValueError" THEN ParseAbsolute(txt, t, k + 1) ELSE r

S_just_now == << "j", "u", "s", "t", " ", "n", "o", "w" >>
S_now == << "n", "o", "w" >>
S_yesterday == << "y", "e", "s", "t", "e", "r", "d", "a", "y" >>

\* lines 48-56: the "yesterday" branch
ParseYesterday(s, t) ==
    LET m  == SearchClock(s)
        dt == MinusTimedelta(t, "days", 1)
    IN  IF dt.raises # "none" \/ IsNone(m) THEN dt
        ELSE ReplaceTime(Get(dt.value), Get(m).hour, Get(m).minute)

\* the forms tried with the hours pattern ahead of the minutes pattern
parse_relative_time_hours_first(txt, t) ==
    LET s == Lower(Strip(txt))
        minutes == SearchUnit(s, RELATIVE_MINUTES_PATTERN)
        hours   == SearchUnit(s, RELATIVE_HOURS_PATTERN)
        days    == SearchUnit(s, RELATIVE_DAYS_PATTERN)
    IN  IF s \in {S_just_now, S_now} THEN Returned(t)
        ELSE IF StartsWith(s, S_yesterday) THEN ParseYesterday(s, t)
        ELSE IF ~IsNone(hours) THEN MinusTimedelta(t, "hours", Get(hours))
        ELSE IF ~IsNone(minutes) THEN MinusTimedelta(t, "minutes", Get(minutes))
        ELSE IF ~IsNone(days) THEN MinusTimedelta(t, "days", Get(days))
        ELSE ParseAbsolute(txt, t, 1)

\* parse_relative_time(text, now), now given in UTC: what the call returns
\* or the exception it raises
parse_relative_time(txt, t) ==
    LET s == Lower(Strip(txt))
        minutes == SearchUnit(s, RELATIVE_MINUTES_PATTERN)
        hours   == SearchUnit(s, RELATIVE_HOURS_PATTERN)
        days    == SearchUnit(s, RELATIVE_DAYS_PATTERN)
    IN  IF s \in {S_just_now, S_now} THEN Returned(t)
        ELSE IF StartsWith(s, S_yesterday) THEN ParseYesterday(s, t)
        ELSE IF ~IsNone(minutes) THEN MinusTimedelta(t, "minutes", Get(minutes))
        ELSE IF ~IsNone(hours) THEN MinusTimedelta(t, "hours", Get(hours))
        ELSE IF ~IsNone(days) THEN MinusTimedelta(t, "days", Get(days))
        ELSE ParseAbsolute(txt, t, 1)

\* texts given to parse_relative_time
Texts ==
    { << "J", "u", "s", "t", " ", "n", "o", "w" >>, << " ", "N", "O", "W", " ", "\n" >>, << "5", " ", "m", "i", "n", "s" >>, << "2", " ", "h", "o", "u", "r", "s", " ", "a", "g", "o" >>, << "1", " ", "d" >>, << "3", " ", "D", "a", "y", "s", " ", "a", "g", "o" >>,
      << "1", "5", " ", "m", "i", "n", "u", "t", "e", "s" >>, << "7", "h" >>, << "1", "0", " ", "h", "r", "s" >>, << "5", " ", "m", "i", "n", "t" >>, << "5", " ", "m", "i", "n", "s", " ", "2", " ", "h", "o", "u", "r", "s" >>,
      << "2", " ", "h", "o", "u", "r", "s", " ", "5", " ", "m", "i", "n", "s" >>, << "Y", "e", "s", "t", "e", "r", "d", "a", "y", " ", "a", "t", " ", "1", "4", ":", "3", "0" >>, << "y", "e", "s", "t", "e", "r", "d", "a", "y" >>,
      << "y", "e", "s", "t", "e", "r", "d", "a", "y", " ", "a", "t", " ", "2", "5", ":", "9", "9" >>, << "Y", "e", "s", "t", "e", "r", "d", "a", "y", " ", "9", ":", "0", "5" >>, << "g", "a", "r", "b", "a", "g", "e", " ", "t", "e", "x", "t" >>, << >>,
      << "9", "9", "9", "9", "9", "9", "9", "9", "9", " ", "d", "a", "y", "s" >>, << "2", "0", "0", "0", "0", "0", "0", " ", "h", "o", "u", "r", "s" >>, << "2", "0", "2", "4", "-", "0", "1", "-", "0", "2", " ", "0", "3", ":", "0", "4", ":", "0", "5" >>,
      << "2", "0", "2", "4", "-", "0", "1", "-", "0", "2" >>, << "0", "2", ".", "0", "1", ".", "2", "0", "2", "4", " ", "0", "3", ":", "0", "4" >>, << "2", "0", "2", "4", "-", "0", "2", "-", "3", "0" >>, << "2", "0", "2", "4", "-", "1", "-", "2" >> }

\* reference instants: 2026-11-02 10:15:30, 2026-11-02 00:03:00,
\* 1970-01-01 00:00:00
Nows == { Instant(739921, 615, 30), Instant(739921, 3, 0), Instant(719162, 0, 0) }

InitTime ==
    /\ pc = "parse_relative_time"
    /\ text \in Texts
    /\ now \in { Some(t) : t \in Nows }
    /\ parsed = None
    /\ ScrapeIdle /\ ProfileIdle /\ ExportIdle /\ MainIdle

\* one call of parse_relative_time
ParseRelativeTimeCall ==
    /\ pc = "parse_relative_time"
    /\ parsed' = Some(parse_relative_time(text, Get(now)))
    /\ pc' = "time_returned"
    /\ UNCHANGED << text, now, scrapeVars, profileVars, exportVars, mainVars >>

NextTime == ParseRelativeTimeCall

SpecTime == InitTime /\ [][NextTime]_vars

(***************************************************************************)
(* outputs/exporters.export_data                                            *)
(*                                                                         *)
(* A file's content is a sequence of lines; a line is [kind, fields, data]. *)
(***************************************************************************)
MaxRecords == 2   \* longest list of records given to export_data on its own

S_json == << "j", "s", "o", "n" >>
S_jsonl == << "j", "s", "o", "n", "l" >>
S_csv == << "c", "s", "v" >>

\* Path(output_path).suffix: from the last "." on, unless that "." begins
\* or ends the name
PathSuffix(path) ==
    LET seps == { k \in 1..Len(path) : path[k] = "/" }
        from == IF seps = {} THEN 1
                ELSE 1 + CHOOSE k \in seps : \A j \in seps : j <= k
        name == SubSeq(path, from, Len(path))
        dots == { k \in 1..Len(name) : name[k] = "." }
        i    == IF dots = {} THEN 0
                ELSE CHOOSE k \in dots : \A j \in dots : j <= k
    IN  IF 1 < i /\ i < Len(name) THEN SubSeq(name, i, Len(name)) ELSE << >>

\* every key of the records of the model, in sorted() order
SortedKeys ==
    << "a", "b", "id", "image", "profile_details", "subtitle_text", "title",
       "url", "username" >>

\* _export_json: json.dump of the whole list
JsonContent(recs) == << [kind |-> "json", fields |-> << >>, data |-> recs] >>

\* _export_jsonl: one line per record
JsonlContent(recs) ==
    [i \in 1..Len(recs) |-> [kind |-> "jsonl", fields |-> << >>, data |-> << recs[i] >>]]

\* _export_csv with records: the header of the sorted union of the keys,
\* then one row per record
CsvContent(recs) ==
    LET fieldnames == UNION { DOMAIN recs[i] : i \in DOMAIN recs }
        ordered_fields == SelectSeq(SortedKeys, LAMBDA k : k \in fieldnames)
    IN  << [kind |-> "csv_header", fields |-> ordered_fields, data |-> << >>] >>
        \o [i \in 1..Len(recs) |->
               [kind |-> "csv_row", fields |-> ordered_fields, data |-> << recs[i] >>]]

\* the file after path.open("w") and the writes of the format, or after
\* _export_csv's path.touch() when there is no record
WrittenFile(fmt, recs, old) ==
    CASE fmt = S_json  -> Some(JsonContent(recs))
      [] fmt = S_jsonl -> Some(JsonlContent(recs))
      [] fmt = S_csv   -> IF recs = << >>
                          THEN (IF IsNone(old) THEN Some(<< >>) ELSE old)
                          ELSE Some(CsvContent(recs))

\* lines 38-42: the format export_data works with
EffectiveFormat(name, fmt) ==
    Lower(IF IsNone(fmt)
          THEN LET ext == LStripChars(Lower(PathSuffix(name)), {"."})
               IN  IF ext = << >> THEN S_json ELSE ext
          ELSE Get(fmt))

\* variant of export_data: the parent directory is made before the format
\* is validated
export_data_mkdir_first(recs, name, fmt, parent, old, failing) ==
    LET f == EffectiveFormat(name, fmt) IN
    IF f \notin {S_json, S_jsonl, S_csv}
    THEN [result |-> "ValueError", parent |-> TRUE, dest |-> old]
    ELSE IF failing
    THEN [result |-> "OSError", parent |-> TRUE, dest |-> old]
    ELSE [result |-> "ok", parent |-> TRUE, dest |-> WrittenFile(f, recs, old)]

\* export_data: how the call ends and the filesystem it leaves, given the
\* filesystem it finds (parent directory, destination content)
export_data(recs, name, fmt, parent, old, failing) ==
    LET f == EffectiveFormat(name, fmt) IN
    IF f \notin {S_json, S_jsonl, S_csv}
    THEN [result |-> "ValueError", parent |-> parent, dest |-> old]
    ELSE IF failing
    THEN [result |-> "OSError", parent |-> TRUE, dest |-> old]
    ELSE [result |-> "ok", parent |-> TRUE, dest |-> WrittenFile(f, recs, old)]

\* content of a destination file left by an earlier run
OldContent == << [kind |-> "old", fields |-> << >>, data |-> << >>] >>

\* the filesystem states a call can find: <<parent exists, destination>>
FsStates == { << FALSE, None >>, << TRUE, None >>, << TRUE, Some(OldContent) >> }

ExportRecords == { [a |-> 1], [b |-> 2], [a |-> 3, b |-> 4] }

OutputNames ==
    { << "o", "u", "t", ".", "j", "s", "o", "n" >>, << "o", "u", "t", ".", "C", "S", "V" >>, << "o", "u", "t", ".", "x", "m", "l" >>, << "o", "u", "t" >>, << "o", "u", "t", ".", "j", "s", "o", "n", "l" >> }

OutputFormats ==
    {None} \cup { Some(f) : f \in { S_json, S_jsonl, S_csv, << "C", "S", "V" >>, << "x", "m", "l" >>, << >> } }

InitExport ==
    /\ pc = "export_data"
    /\ records \in SeqsUpTo(ExportRecords, MaxRecords)
    /\ output_path \in OutputNames
    /\ output_format \in OutputFormats
    /\ \E fs \in FsStates : parent_dir_exists = fs[1] /\ dest_file = fs[2]
    /\ failing_disk \in BOOLEAN
    /\ export_result = None
    /\ ScrapeIdle /\ ProfileIdle /\ TimeIdle /\ MainIdle

\* one call of export_data
ExportDataCall ==
    /\ pc = "export_data"
    /\ LET r == export_data(records, output_path, output_format,
                            parent_dir_exists, dest_file, failing_disk)
       IN  /\ export_result' = Some(r.result)
           /\ parent_dir_exists' = r.parent
           /\ dest_file' = r.dest
    /\ pc' = "export_returned"
    /\ UNCHANGED << records, output_path, output_format, failing_disk >>
    /\ UNCHANGED << scrapeVars, profileVars, timeVars, mainVars >>

NextExport == ExportDataCall

SpecExport == InitExport /\ [][NextExport]_vars

(***************************************************************************)
(* runner.main                                                              *)
(***************************************************************************)
MaxLines == 2   \* longest input file, in lines

\* lines of the input file
L_blank == << " ", "\n" >>
L_comment == << " ", "#", " " >> \o U_bo \o << "\n" >>
L_al == << " " >> \o U_al \o << "\n" >>
L_bo == U_bo

InputLines == { L_blank, L_comment, L_al, L_bo }

\* variant of KeepsLine: only blank lines are dropped
KeepsLineWithComments(line) == Strip(line) # << >>

\* read_input_urls lines 94-97: the line gives a URL
KeepsLine(line) == Strip(line) # << >> /\ ~StartsWith(Strip(line), << "#" >>)

\* read_input_urls on an existing file: the stripped lines kept
read_input_urls(lines) ==
    LET kept == SelectSeq(lines, KeepsLine)
    IN  [i \in 1..Len(kept) |-> Strip(kept[i])]

S_out_csv == << "o", "u", "t", ".", "c", "s", "v" >>
S_xml == << "x", "m", "l" >>

\* runner.py lines 9-15 (the keys main reads after the input file)
DEFAULT_CONFIG ==
    [ output_file   |-> << "d", "a", "t", "a", "/", "o", "u", "t", "p", "u", "t",
                          ".", "j", "s", "o", "n" >>,
      output_format |-> Some(S_json),
      max_items     |-> Some(250) ]

\* load_settings lines 44-67: the defaults, updated with the keys the settings
\* file holds.  file_config.output_format is None when the file is missing,
\* unreadable or has no such key, and Some(v) when it sets the key to v
\* (v = None for a JSON null).
load_settings(fc) ==
    IF IsNone(fc.output_format) THEN DEFAULT_CONFIG
    ELSE [DEFAULT_CONFIG EXCEPT !.output_format = Get(fc.output_format)]

\* apply_cli_overrides lines 69-78
apply_cli_overrides(cfg, a) ==
    [ output_file   |-> IF ~Falsy(a.output_file) THEN Get(a.output_file)
                        ELSE cfg.output_file,
      output_format |-> IF ~Falsy(a.format) THEN a.format ELSE cfg.output_format,
      max_items     |-> IF ~IsNone(a.max_items) THEN a.max_items ELSE cfg.max_items ]

\* the command lines of the model: --format, --output-file, --max-items
Args ==
    [ format      : { None, Some(S_csv) },
      output_file : { None, Some(S_out_csv) },
      max_items   : { None, Some(0), Some(MaxLimit) } ]

\* the settings files of the model
FileConfigs == [ output_format : { None, Some(None), Some(Some(S_xml)) } ]

\* main line 155
ResolvedFormat(cfg) ==
    IF ~Falsy(cfg.output_format) THEN Get(cfg.output_format)
    ELSE LET ext == LStripChars(PathSuffix(cfg.output_file), {"."})
         IN  IF ext # << >> THEN ext ELSE S_json

InitMain ==
    /\ pc = "main"
    /\ args \in { Some(a) : a \in Args }
    /\ file_config \in { Some(fc) : fc \in FileConfigs }
    /\ config = Some(apply_cli_overrides(load_settings(Get(file_config)), Get(args)))
    /\ input_file \in {None} \cup { Some(ls) : ls \in SeqsUpTo(InputLines, MaxLines) }
    /\ exit_code = None
    /\ down \in { {}, { normalize_profile_url(U_al) } }
    /\ urls = << >> /\ max_items = None /\ idx = 1 /\ remaining = None
    /\ all_profiles = << >> /\ fetched = << >> /\ raised = FALSE
    /\ records = << >>
    /\ output_path = Get(config).output_file
    /\ output_format = None
    /\ \E fs \in FsStates : parent_dir_exists = fs[1] /\ dest_file = fs[2]
    /\ failing_disk \in BOOLEAN
    /\ export_result = None
    /\ ProfileIdle /\ TimeIdle

\* main lines 158-161: the input file does not exist
MainInputMissing ==
    /\ pc = "main"
    /\ IsNone(input_file)
    /\ exit_code' = Some(1)
    /\ pc' = "exited"
    /\ UNCHANGED << args, file_config, config, input_file >>
    /\ UNCHANGED << scrapeVars, profileVars, timeVars, exportVars >>

\* main lines 158-165: the input file gives no URL
MainNoUrls ==
    /\ pc = "main"
    /\ ~IsNone(input_file)
    /\ read_input_urls(Get(input_file)) = << >>
    /\ exit_code' = Some(1)
    /\ pc' = "exited"
    /\ UNCHANGED << args, file_config, config, input_file >>
    /\ UNCHANGED << scrapeVars, profileVars, timeVars, exportVars >>

\* main lines 158-203: the URLs are read and scrape is entered
MainStartScrape ==
    /\ pc = "main"
    /\ ~IsNone(input_file)
    /\ read_input_urls(Get(input_file)) # << >>
    /\ urls' = read_input_urls(Get(input_file))
    /\ max_items' = Get(config).max_items
    /\ remaining' = Get(config).max_items
    /\ idx' = 1
    /\ all_profiles' = << >>
    /\ fetched' = << >>
    /\ raised' = FALSE
    /\ pc' = "scrape_loop"
    /\ UNCHANGED << down, mainVars, profileVars, timeVars, exportVars >>

\* main lines 208-221: the records are exported and the process ends
MainExport ==
    /\ pc = "scrape_returned"
    /\ ~IsNone(config)
    /\ records' = all_profiles
    /\ output_format' = Some(ResolvedFormat(Get(config)))
    /\ LET r == export_data(all_profiles, output_path,
                            Some(ResolvedFormat(Get(config))),
                            parent_dir_exists, dest_file, failing_disk)
       IN  /\ export_result' = Some(r.result)
           /\ parent_dir_exists' = r.parent
           /\ dest_file' = r.dest
           /\ exit_code' = IF r.result = "ok" THEN Some(0) ELSE Some(1)
    /\ pc' = "exited"
    /\ UNCHANGED << args, file_config, config, input_file, output_path, failing_disk >>
    /\ UNCHANGED << scrapeVars, profileVars, timeVars >>

Init == InitMain

Next ==
    \/ MainInputMissing
    \/ MainNoUrls
    \/ MainStartScrape
    \/ ScrapeUrlFails
    \/ ScrapeUrlOk
    \/ ScrapeReturn
    \/ MainExport

Spec == Init /\ [][Next]_vars

(***************************************************************************)
(* Properties                                                               *)
(***************************************************************************)
\* the normalized URLs of the candidate anchors of a document, in order
CandidateUrlSeq(doc) ==
    LET cards == find_candidate_cards(doc)
    IN  [i \in DOMAIN cards |-> normalize_profile_url(Get(cards[i].href))]

\* position of the first occurrence of u in the sequence q
FirstIndex(q, u) ==
    CHOOSE i \in DOMAIN q : q[i] = u /\ \A j \in 1..(i - 1) : q[j] # u

\* the visible text, lower-cased, holds a term of the blocklist
HoldsNavigationTerm(t) == \E term \in SKIP_TERMS : Contains(Lower(t), term)

\* C1: whenever scrape is given an integer max_items = N, every page is
\* fetched with limit = N minus the records accumulated so far, that limit
\* is positive (no URL is fetched once the budget is 0), and after each URL
\* processed the records accumulated are at most N and remaining =
\* N - accumulated is not below 0.
C1_OrchestratorCap ==
    ~IsNone(max_items) =>
        LET N == Get(max_items) IN
        /\ \A k \in DOMAIN fetched :
              /\ fetched[k].limit = Some(N - fetched[k].had)
              /\ N - fetched[k].had > 0
        /\ idx > 1 =>
              /\ Len(all_profiles) <= N
              /\ N - Len(all_profiles) >= 0
              /\ remaining = Some(N - Len(all_profiles))

\* C1 witness: a cap of 3 is used up by two pages and scrape returns with a
\* URL left unfetched
C1_Witness ==
    /\ pc = "scrape_returned"
    /\ max_items = Some(3)
    /\ Len(all_profiles) = 3
    /\ Len(fetched) = 2
    /\ remaining = Some(0)
    /\ idx <= Len(urls)

\* C2: for every page and every limit N >= 0, N = 0 included,
\* _scrape_profile returns exactly min(N, totalMatches) records, the first
\* min(N, totalMatches) of the uncapped result in document order.
C2_PerPageTruncation ==
    (pc = "profile_returned" /\ ~IsNone(limit)) =>
        LET k == Min(Get(limit), Cardinality(Range(CandidateUrlSeq(html))))
        IN  /\ Len(profiles) = k
            /\ profiles = SubSeq(ParseProfilePage(html, None), 1, k)

\* C3: scrape never raises; a failing URL adds no record and leaves the
\* budget as it was; the loop goes on to the later URLs; and the list
\* returned is the one scrape returns for the URLs that do not fail.
C3_FailureIsolation ==
    /\ ~raised
    /\ \A k \in DOMAIN fetched :
          fetched[k].url \in down =>
              IF k < Len(fetched)
              THEN /\ fetched[k + 1].had = fetched[k].had
                   /\ fetched[k + 1].limit = fetched[k].limit
              ELSE /\ Len(all_profiles) = fetched[k].had
                   /\ remaining = fetched[k].limit
    /\ pc = "scrape_returned" =>
          /\ idx > Len(urls) \/ (~IsNone(remaining) /\ Get(remaining) <= 0)
          /\ all_profiles =
                ScrapeAll(SelectSeq(urls, LAMBDA u : normalize_profile_url(u) \notin down),
                          max_items)

\* C3 witness: the first URL failed, a later one was scraped and gave records
C3_Witness ==
    /\ pc = "scrape_returned"
    /\ Len(fetched) >= 2
    /\ fetched[1].url \in down
    /\ fetched[2].url \notin down
    /\ all_profiles # << >>

\* C4: the records one _scrape_profile call returns have pairwise different
\* url values, each the normalized absolute form of a candidate's href.
C4_UrlUnique ==
    pc = "profile_returned" =>
        LET candidates == Range(CandidateUrlSeq(html)) IN
        /\ \A i, j \in DOMAIN profiles :
              i # j => profiles[i].url # profiles[j].url
        /\ \A i \in DOMAIN profiles : profiles[i].url \in candidates

\* C4 witness: a relative and an absolute href with the same normalized URL
\* stand in one document that yields two records
C4_Witness ==
    /\ pc = "profile_returned"
    /\ A_rel \in Range(html)
    /\ A_abs \in Range(html)
    /\ Len(profiles) = 2

\* C5: each record is built from the first candidate anchor, in document
\* order, that has its URL; records follow the order of those first anchors;
\* and the loop stops short of the distinct URLs only when the records kept
\* reach the cap, so a dropped duplicate does not count toward it.
C5_FirstAnchorWins ==
    pc = "profile_returned" =>
        LET cards == find_candidate_cards(html)
            cand  == CandidateUrlSeq(html)
            first == [k \in DOMAIN profiles |->
                         IF profiles[k].url \in Range(cand)
                         THEN FirstIndex(cand, profiles[k].url) ELSE 0]
        IN  /\ \A k \in DOMAIN profiles :
                  /\ first[k] > 0
                  /\ profiles[k] =
                        build_profile_from_anchor(cards[first[k]], profiles[k].url)
            /\ \A j, k \in DOMAIN profiles : j < k => first[j] < first[k]
            /\ Len(profiles) < Cardinality(Range(cand)) =>
                  ~IsNone(limit) /\ Len(profiles) >= Get(limit)

\* C5 witness: a duplicate with other visible text follows the first anchor
\* and a later anchor still fills a cap of 2
C5_Witness ==
    /\ pc = "profile_returned"
    /\ html = << A_rel, A_abs, A_php >>
    /\ limit = Some(2)
    /\ Len(profiles) = 2
    /\ profiles[1].title = << "A", "l" >>
    /\ profiles[2].title = << "C", "y" >>

\* C6: parse_relative_time returns an instant and raises nothing, for every
\* text and every reference instant.
C6_NeverFails ==
    pc = "time_returned" => Get(parsed).raises = "none"

\* C7: main ends with status 0 exactly when the export succeeded; it ends
\* non-zero when the input file is missing, when the file gives no URL once
\* blank and '#' lines are dropped, and when export_data raises; with a
\* missing input or no URL nothing is fetched and no output is written.
C7_ExitStatus ==
    LET noInput == IsNone(input_file)
        noUrls  == /\ ~IsNone(input_file)
                   /\ \A i \in DOMAIN Get(input_file) :
                         LET l == Strip(Get(input_file)[i])
                         IN  l = << >> \/ Head(l) = "#"
    IN  /\ exit_code = Some(0) => (pc = "exited" /\ export_result = Some("ok"))
        /\ pc = "exited" =>
              /\ ~IsNone(exit_code)
              /\ (noInput \/ noUrls) =>
                    /\ exit_code # Some(0)
                    /\ fetched = << >>
                    /\ IsNone(export_result)
                    /\ dest_file \in {None, Some(OldContent)}
              /\ (~IsNone(export_result) /\ export_result # Some("ok")) =>
                    exit_code # Some(0)
              /\ export_result = Some("ok") => exit_code = Some(0)

\* C7 witness: an input file of a comment and a blank line ends the run with
\* status 1
C7_Witness ==
    /\ pc = "exited"
    /\ input_file = Some(<< L_comment, L_blank >>)
    /\ exit_code = Some(1)
    /\ fetched = << >>

\* C8: a call of export_data whose format, explicit or inferred from the
\* extension, is outside json/jsonl/csv ends in the ValueError and leaves
\* the parent directory and the destination file as they were.
C8_UnsupportedRejectedBeforeIO ==
    [][ ( /\ pc = "export_data"
          /\ pc' = "export_returned"
          /\ EffectiveFormat(output_path, output_format) \notin {S_json, S_jsonl, S_csv} )
        => ( /\ export_result' = Some("ValueError")
             /\ parent_dir_exists' = parent_dir_exists
             /\ dest_file' = dest_file ) ]_vars

\* C8 witness: the format inferred from "out.xml" was rejected and the
\* missing parent directory is still missing
C8_Witness ==
    /\ pc = "export_returned"
    /\ output_format = None
    /\ output_path = << "o", "u", "t", ".", "x", "m", "l" >>
    /\ export_result = Some("ValueError")
    /\ ~parent_dir_exists
    /\ IsNone(dest_file)

\* C9: after export_data has exported zero records as csv, the destination
\* exists and is empty, whatever it was before.
C9_EmptyCsvFile ==
    ( /\ pc = "export_returned"
      /\ records = << >>
      /\ EffectiveFormat(output_path, output_format) = S_csv
      /\ export_result = Some("ok") )
    => dest_file = Some(<< >>)

\* C10: no record comes from an anchor whose visible text, lower-cased,
\* holds a term of the blocklist: no record carries such a text as its title.
C10_NavigationFiltered ==
    pc = "profile_returned" =>
        /\ \A k \in DOMAIN profiles : ~HoldsNavigationTerm(profiles[k].title)
        /\ \A i \in DOMAIN html :
              HoldsNavigationTerm(get_text(html[i])) =>
                  \A k \in DOMAIN profiles : profiles[k].title # get_text(html[i])

\* C10 witness: "Log In" on a matching href and "Homer" stand in a document
\* that yields a record from another anchor
C10_Witness ==
    /\ pc = "profile_returned"
    /\ html = << A_login, A_homer, A_proto >>
    /\ Len(profiles) = 1

\* C11: when the run is started without --format and no settings file sets a
\* format, the format handed to export_data is the one inferred from the
\* output file's extension (out.csv is written as CSV).
C11_FormatInferredFromExtension ==
    ( /\ pc = "exited"
      /\ ~IsNone(export_result)
      /\ IsNone(Get(args).format)
      /\ IsNone(Get(file_config).output_format) ) =>
        output_format = Some(LStripChars(PathSuffix(output_path), {"."}))

\* the URL is a profile.php URL
IsProfilePhp(u) == Contains(UrlPath(u), S_profile_php)

\* the URL carries a numeric profile identifier: a profile.php URL whose query
\* holds id=<digits>
CarriesNumericId(u) == IsProfilePhp(u) /\ ~IsNone(SearchId(UrlQuery(u)))

\* C12: for every record, id is the numeric profile identifier when the URL
\* carries one, otherwise the last path segment of the URL, otherwise the full
\* URL; id is never the empty string, and a profile.php URL without a numeric
\* id parameter gets its last path segment.
C12_IdDerivation ==
    pc = "profile_returned" =>
        \A i \in DOMAIN profiles :
            LET u   == profiles[i].url
                seg == LastSegment(UrlPath(u))
            IN  /\ profiles[i].id # << >>
                /\ profiles[i].id =
                       IF CarriesNumericId(u) THEN Get(SearchId(UrlQuery(u)))
                       ELSE IF seg # << >> THEN seg
                       ELSE u

\* C12 (amended): for every record, id is never the empty string; for a
\* profile.php URL it is the numeric id parameter when the query holds one and
\* the full URL otherwise; for any other URL it is the last path segment when
\* the path has one and the full URL otherwise.
C12_IdDerivationAmended ==
    pc = "profile_returned" =>
        \A i \in DOMAIN profiles :
            LET u   == profiles[i].url
                seg == LastSegment(UrlPath(u))
            IN  /\ profiles[i].id # << >>
                /\ profiles[i].id =
                       IF CarriesNumericId(u) THEN Get(SearchId(UrlQuery(u)))
                       ELSE IF ~IsProfilePhp(u) /\ seg # << >> THEN seg
                       ELSE u

\* a record was built for a profile.php URL without a numeric id parameter,
\* and its id is the full URL
C12_Witness ==
    /\ pc = "profile_returned"
    /\ \E i \in DOMAIN profiles :
          /\ IsProfilePhp(profiles[i].url)
          /\ ~CarriesNumericId(profiles[i].url)
          /\ profiles[i].id = profiles[i].url

\* the instant n minutes before t, for n no larger than the minutes t counts
\* from 0001-01-01 00:00
MinutesBefore(t, n) ==
    LET total == t.day * 1440 + t.min - n
    IN  Instant(total \div 1440, total % 1440, t.sec)

\* the first form of the priority order that the text matches
FirstForm(txt) ==
    LET s == Lower(Strip(txt)) IN
    IF s \in {S_just_now, S_now} THEN "now"
    ELSE IF StartsWith(s, S_yesterday) THEN "yesterday"
    ELSE IF ~IsNone(SearchUnit(s, RELATIVE_MINUTES_PATTERN)) THEN "minutes"
    ELSE IF ~IsNone(SearchUnit(s, RELATIVE_HOURS_PATTERN)) THEN "hours"
    ELSE IF ~IsNone(SearchUnit(s, RELATIVE_DAYS_PATTERN)) THEN "days"
    ELSE IF \E k \in DOMAIN ABSOLUTE_FORMATS :
                Strptime(txt, ABSOLUTE_FORMATS[k]).raises # "ValueError"
         THEN "absolute"
    ELSE "fallback"

\* C13: parse_relative_time applies the first form that matches, in the order
\* just-now/now, yesterday, N minutes, N hours, N days, absolute format,
\* fallback.  With T the reference instant: "5 mins" gives T - 5 minutes,
\* "2 hours ago" gives T - 2 hours, "just now" gives T, a text matching no
\* form gives T, and a text holding both a minutes and an hours pattern gives
\* T minus the minutes value only.  (Where T - N exists; the instants before
\* 0001-01-01 are the matter of C6.)
C13_PriorityOrder ==
    pc = "time_returned" =>
        LET T    == Get(now)
            r    == Get(parsed)
            s    == Lower(Strip(text))
            form == FirstForm(text)
            mins == SearchUnit(s, RELATIVE_MINUTES_PATTERN)
            hrs  == SearchUnit(s, RELATIVE_HOURS_PATTERN)
            dys  == SearchUnit(s, RELATIVE_DAYS_PATTERN)
            elapsed == T.day * 1440 + T.min
        IN  /\ form = "now" => r = Returned(T)
            /\ form = "yesterday" => r = ParseYesterday(s, T)
            /\ (form = "minutes" /\ Get(mins) <= elapsed) =>
                    r = Returned(MinutesBefore(T, Get(mins)))
            /\ (form = "hours" /\ Get(hrs) * 60 <= elapsed) =>
                    r = Returned(MinutesBefore(T, Get(hrs) * 60))
            /\ (form = "days" /\ Get(dys) <= T.day) =>
                    r = Returned(Instant(T.day - Get(dys), T.min, T.sec))
            /\ form = "absolute" =>
                    /\ r.raises = "none"
                    /\ \E k \in DOMAIN ABSOLUTE_FORMATS :
                          r = Strptime(text, ABSOLUTE_FORMATS[k])
            /\ form = "fallback" => r = Returned(T)
            /\ text = << "5", " ", "m", "i", "n", "s" >> =>
                    r = Returned(MinutesBefore(T, 5))
            /\ text = << "2", " ", "h", "o", "u", "r", "s", " ", "a", "g", "o" >> =>
                    r = Returned(MinutesBefore(T, 120))
            /\ text = << "J", "u", "s", "t", " ", "n", "o", "w" >> => r = Returned(T)
            /\ text = << "g", "a", "r", "b", "a", "g", "e", " ", "t", "e", "x", "t" >> =>
                    r = Returned(T)
            /\ (~IsNone(mins) /\ ~IsNone(hrs) /\ form = "minutes") =>
                    r = Returned(MinutesBefore(T, Get(mins)))

\* a text holding an hours pattern ahead of a minutes pattern was parsed, and
\* the minutes value alone was taken off the reference instant
C13_Witness ==
    /\ pc = "time_returned"
    /\ text = << "2", " ", "h", "o", "u", "r", "s", " ", "5", " ", "m", "i", "n", "s" >>
    /\ ~IsNone(SearchUnit(Lower(Strip(text)), RELATIVE_HOURS_PATTERN))
    /\ Get(parsed) = Returned(MinutesBefore(Get(now), 5))

\* C14: for every record, username is present exactly when the URL's last path
\* segment is non-numeric; it is absent when the last path segment consists
\* only of digits, when the URL is a profile.php URL, and when the path has no
\* segment.
C14_UsernamePresence ==
    pc = "profile_returned" =>
        \A i \in DOMAIN profiles :
            LET u       == profiles[i].url
                seg     == LastSegment(UrlPath(u))
                numeric == seg # << >> /\ \A k \in DOMAIN seg : seg[k] \in Digits
            IN  IF IsProfilePhp(u) \/ seg = << >> \/ numeric
                THEN IsNone(profiles[i].username)
                ELSE profiles[i].username = Some(seg)


====
